---- MODULE Spec2Model ----
(***************************************************************************)
(* Tap-dot overlay and desktop helper of the slide-tap presentation aid.   *)
(*                                                                         *)
(* The state machines below share one set of variables:                    *)
(*   SpecOverlay  the overlay windows on their own (SimpleOverlayWindow,   *)
(*                LinuxOverlayWindow) and the TapDot class;                *)
(*   Spec         DesktopHelper driving a SimpleOverlayWindow from the     *)
(*                Qt main thread, the HTTP trigger thread and the          *)
(*                file-watcher thread;                                     *)
(*   SpecCapture  the three capture triggers running at the same time;     *)
(*   SpecWatcher, SpecWatcherLive   FirestoreWatcher on its own;           *)
(*   SpecSession  FirestoreWatcher, its queued signals and the slots of    *)
(*                DesktopHelper;                                           *)
(*   SpecFile     FileWatcherTrigger;                                      *)
(*   SpecHttp     ScreenshotHTTPServer;                                    *)
(*   SpecOverlayWindow   the OverlayWindow of helper/overlay.py.           *)
(*                                                                         *)
(* Time: `now' is time.time() in whole seconds.  fade_ms is in             *)
(* milliseconds and is drawn from whole seconds, so that                   *)
(* DOT_DURATION = fade_ms / 1000.0 is exact.  Floating-point rounding is   *)
(* not modelled; math.cos is modelled by Bhaskara's rational               *)
(* approximation (exact at 0, 1/3, 1/2, 2/3 and 1 of the fade window).     *)
(***************************************************************************)
EXTENDS Integers, Sequences, FiniteSets, TLC

\* ------------------------------------------------------------------ bounds
MaxTime == 3
HelperTime == 1
MaxDots == 2
MaxFadeSec == 2
ScreenW == 4
ScreenH == 3
StartTime == 5
Grace == 2
MaxSlides == 1
MaxCaptures == 2
MaxRequests == 3
MaxQueue == 2
MaxAddCalls == 2

\* alternative_triggers.py: 2 second cooldown between HTTP captures
HTTP_TRIGGER_COOLDOWN_MS == 2000

VARIABLES
    now,                     \* time.time(), seconds
    horizon,                 \* the time up to which the run is followed
    max_slides,              \* how many slides the session takes in the run
    overlay,                 \* class of the overlay object, or "None"
    screen,                  \* [x, y, width, height] given to the overlay constructor
    fade_ms,                 \* fade_ms given to the overlay constructor
    dots,                    \* overlay.dots: sequence of [x, y, timestamp]
    cleanup_timer,           \* "absent" | "active" | "stopped"
    start_time,              \* DesktopHelper.start_time
    ignore_seconds,          \* config 'ignore_past_responses_seconds' (0 when unset)
    monitor_index,           \* config 'monitor_index'
    current_slide_index,     \* DesktopHelper.current_slide_index
    hk_pc,                   \* per thread: where it is in _on_hotkey_pressed
    new_slide_index,         \* per thread: the local of _update_session_document
    session_doc,             \* the session document: [slides (how many), slideIndex]
    last_http_trigger_time,  \* alternative_triggers.last_http_trigger_time, ms
    trigger_counter,         \* alternative_triggers.trigger_counter
    watcher,                 \* the FirestoreWatcher (see NoWatcher)
    file_watcher,            \* the FileWatcherTrigger: [running, last_modified, pc]
    trigger_file,            \* the trigger file: <<>> when absent, else <<mtime>>
    firestore,               \* the responses in Firestore and the responses listener's
                             \* thread (see NoFirestore)
    signals,                 \* the Qt signals queued for the main thread, oldest first
    add_dot_calls,           \* per response document: the add_dot calls made for it
    last                     \* what the last step did and saw (see NoObs)

overlayVars == <<overlay, screen, fade_ms, dots, cleanup_timer>>
configVars == <<horizon, max_slides, start_time, ignore_seconds, monitor_index>>
fileVars == <<file_watcher, trigger_file>>
sessionVars == <<firestore, signals, add_dot_calls>>
serviceVars == <<watcher, trigger_counter, fileVars, sessionVars>>
captureVars == <<hk_pc, new_slide_index, session_doc, last_http_trigger_time>>
vars == <<now, horizon, max_slides, overlay, screen, fade_ms, dots, cleanup_timer, start_time,
          ignore_seconds, monitor_index, current_slide_index, hk_pc,
          new_slide_index, session_doc, last_http_trigger_time,
          trigger_counter, watcher, file_watcher, trigger_file, firestore,
          signals, add_dot_calls, last>>

Threads == {"main", "http", "file"}

FadeChoices == {k * 1000 : k \in (-1)..MaxFadeSec}

\* int(): truncation toward zero of the rational n / d, d > 0
Trunc(n, d) == IF n >= 0 THEN n \div d ELSE -((-n) \div d)

\* ------------------------------------------------------------------ TapDot

\* math.cos(fade_progress * math.pi) with fade_progress = e / f, as <<num, den>>
cos_pi(e, f) ==
    LET a == IF e < 0 THEN -e ELSE e
        r == f - a
    IN  IF 2 * a <= f
        THEN <<f * f - 4 * a * a, f * f + a * a>>
        ELSE <<-(f * f - 4 * r * r), f * f + r * r>>

TapDot(fade, t) == [fade_ms |-> fade, created_time |-> t * 1000]

\* TapDot.get_alpha at time.time() = t, as the rational <<num, den>>
get_alpha(td, t) ==
    IF td.fade_ms <= 0
    THEN <<1, 1>>
    ELSE LET current_time == t * 1000
             elapsed == current_time - td.created_time
         IN  IF elapsed >= td.fade_ms
             THEN <<0, 1>>
             ELSE LET c == cos_pi(elapsed, td.fade_ms)
                  IN  <<c[1] + c[2], 2 * c[2]>>

is_expired_lt(td, t) == get_alpha(td, t)[1] < 0

is_expired(td, t) == get_alpha(td, t)[1] <= 0

\* ------------------------------------------------------------------ overlay

DOT_DURATION(fade) == fade \div 1000

Dot(x, y, t) == [x |-> x, y |-> y, timestamp |-> t]

Age(dot, t) == t - dot.timestamp

cleanup_filter_le(d, t, D) == SelectSeq(d, LAMBDA dot : Age(dot, t) <= D)

cleanup_filter_restamp(d, t, D) ==
    LET kept == SelectSeq(d, LAMBDA dot : Age(dot, t) < D)
    IN  [i \in 1..Len(kept) |-> [kept[i] EXCEPT !.timestamp = t]]

\* the list comprehension of _cleanup_dots
cleanup_filter(d, t, D) == SelectSeq(d, LAMBDA dot : Age(dot, t) < D)

fade_alpha_signslip(age, D) == Trunc(255 * (D + age), D)

\* alpha = int(255 * (1.0 - age / DOT_DURATION))
fade_alpha(age, D) == Trunc(255 * (D - age), D)

out_of_bounds_strict(dot, scr) ==
    dot.x <= 0 \/ dot.y <= 0 \/ dot.x > scr.width + 5 \/ dot.y > scr.height + 5

\* the bounds test of SimpleOverlayWindow.paintEvent
out_of_bounds(dot, scr) ==
    dot.x < 0 \/ dot.y < 0 \/ dot.x > scr.width + 5 \/ dot.y > scr.height + 5

Drawn(vis, t, D) ==
    [i \in 1..Len(vis) |->
        [x |-> vis[i].x, y |-> vis[i].y, timestamp |-> vis[i].timestamp,
         alpha |-> fade_alpha(Age(vis[i], t), D)]]

paint_simple_nobounds(d, t, D, scr) ==
    Drawn(SelectSeq(d, LAMBDA dot : Age(dot, t) < D), t, D)

\* SimpleOverlayWindow.paintEvent: the dots drawn, with their alpha
paint_simple(d, t, D, scr) ==
    Drawn(SelectSeq(d, LAMBDA dot : ~out_of_bounds(dot, scr) /\ Age(dot, t) < D), t, D)

\* LinuxOverlayWindow.paintEvent
paint_linux(d, t, D) ==
    Drawn(SelectSeq(d, LAMBDA dot : ~(Age(dot, t) >= D)), t, D)

paint(d, t) ==
    IF overlay = "SimpleOverlayWindow"
    THEN paint_simple(d, t, DOT_DURATION(fade_ms), screen)
    ELSE paint_linux(d, t, DOT_DURATION(fade_ms))

clear_dots_inverted(d) == IF d = <<>> THEN <<>> ELSE d

clear_dots(d) == IF d # <<>> THEN <<>> ELSE d

\* ------------------------------------------------------------ observations
\* `last' records the step just taken:
\*   op, thread     the handler and the thread that ran it
\*   called         the overlay methods that touched overlay.dots in the step
\*   pre_dots       overlay.dots when the step began
\*   pre_index      current_slide_index when the step began
\*   drawn          what the step's paint pass drew
\*   tapdot, alpha, expired   the TapDot read, and what get_alpha / is_expired returned
\*   resp, index    the arguments of _on_new_response / _on_session_changed
\*   outcome        how _on_new_response ended
\*   point          the point it passed to add_dot
\*   emitted        the signals a FirestoreWatcher callback emitted
\*   request, status   the request target do_GET was given, and its answer
\*                  (outcome is then the text handle_http_trigger returned)
\*   pre_watcher    the FirestoreWatcher when a step of the watcher began
NoObs ==
    [op |-> "init", thread |-> "main", called |-> {}, pre_dots |-> <<>>,
     pre_index |-> -1, drawn |-> <<>>, tapdot |-> <<>>, alpha |-> <<>>,
     expired |-> <<>>, resp |-> <<>>, index |-> -1, outcome |-> "",
     point |-> <<>>, emitted |-> <<>>, request |-> <<>>, status |-> 0,
     pre_watcher |-> <<>>]

Observe(op, th, called, o) ==
    last' = [o EXCEPT !.op = op, !.thread = th, !.called = called,
                      !.pre_dots = dots, !.pre_index = current_slide_index]

MainIdle == hk_pc["main"] = "idle"

\* time passes, up to the horizon of the run
Tick ==
    /\ now < horizon
    /\ now' = now + 1
    /\ Observe("tick", "main", {}, NoObs)
    /\ UNCHANGED <<overlayVars, configVars, serviceVars, current_slide_index, captureVars>>

\* overlay.add_dot(x, y): append, repaint at once, start the cleanup timer (Linux)
add_dot(x, y) ==
    /\ Len(dots) < MaxDots
    /\ dots' = Append(dots, Dot(x, y, now))
    /\ cleanup_timer' = IF overlay = "LinuxOverlayWindow" /\ cleanup_timer = "absent"
                        THEN "active" ELSE cleanup_timer

\* the origin, the far corner of the paint margin, a point outside both ways
DotPoints == {<<0, 0>>, <<ScreenW + 5, ScreenH + 5>>, <<-1, ScreenH + 6>>}

AddDot ==
    \E p \in DotPoints :
        /\ add_dot(p[1], p[2])
        /\ Observe("add_dot", "main", {"add_dot"},
                   [NoObs EXCEPT !.drawn = paint(dots', now), !.point = p])
        /\ UNCHANGED <<now, overlay, screen, fade_ms, configVars, serviceVars,
                       current_slide_index, captureVars>>

ClearDots ==
    /\ overlay = "SimpleOverlayWindow"
    /\ dots' = clear_dots(dots)
    /\ Observe("clear_dots", "main", {"clear_dots"}, NoObs)
    /\ UNCHANGED <<now, overlay, screen, fade_ms, cleanup_timer, configVars, serviceVars,
                   current_slide_index, captureVars>>

\* the cleanup timer's timeout, on the Qt main thread
_cleanup_dots ==
    /\ MainIdle
    /\ overlay # "None"
    /\ cleanup_timer = "active"
    /\ dots' = cleanup_filter(dots, now, DOT_DURATION(fade_ms))
    /\ cleanup_timer' = IF overlay = "LinuxOverlayWindow" /\ dots' = <<>>
                        THEN "stopped" ELSE cleanup_timer
    /\ Observe("_cleanup_dots", "main", {"_cleanup_dots"}, NoObs)
    /\ UNCHANGED <<now, overlay, screen, fade_ms, configVars, serviceVars,
                   current_slide_index, captureVars>>

paintEvent ==
    /\ MainIdle
    /\ overlay # "None"
    /\ Observe("paintEvent", "main", {}, [NoObs EXCEPT !.drawn = paint(dots, now)])
    /\ UNCHANGED <<now, overlayVars, configVars, serviceVars, current_slide_index,
                   captureVars>>

\* a TapDot constructed at time c with the overlay's fade_ms, read at time now
TapDot_get_alpha ==
    \E c \in 0..now :
        LET td == TapDot(fade_ms, c)
        IN  /\ Observe("get_alpha", "main", {},
                       [NoObs EXCEPT !.tapdot = <<td>>, !.alpha = get_alpha(td, now)])
            /\ UNCHANGED <<now, overlayVars, configVars, serviceVars, current_slide_index,
                           captureVars>>

TapDot_is_expired ==
    \E c \in 0..now :
        LET td == TapDot(fade_ms, c)
        IN  /\ Observe("is_expired", "main", {},
                       [NoObs EXCEPT !.tapdot = <<td>>,
                                     !.expired = <<is_expired(td, now)>>])
            /\ UNCHANGED <<now, overlayVars, configVars, serviceVars, current_slide_index,
                           captureVars>>

\* FirestoreWatcher.__init__: no listener yet.  A listener is "none" (None),
\* "subscribed", or "unsubscribed" (the object is kept after unsubscribe()).
\* watched is the slide whose responses the listener held was subscribed to;
\* live lists, in the order they were subscribed, the slides of the responses
\* listeners the backend keeps subscribed for this watcher
NoWatcher ==
    [stopped |-> FALSE, session_listener |-> "none",
     responses_listener |-> "none", current_slide_index |-> -1,
     watched |-> -1, live |-> <<>>]

\* FileWatcherTrigger.__init__ and start(); pc is where the watcher thread is
\* in the loop of _watch_file: at the poll, or in the callback
NoFileWatcher == [running |-> TRUE, last_modified |-> 0, pc |-> "poll"]

\* a field of a response document: a number num/den, a string, or missing;
\* a timestamp may also be a datetime (it has .timestamp()), num seconds
Field(kind, num, den) == [kind |-> kind, num |-> num, den |-> den]

Num(n, d) == Field("number", n, d)

Missing == Field("missing", 0, 1)

Response(x, y, ts) == [x |-> x, y |-> y, timestamp |-> ts]

\* the tap responses students may write: a document id, the slide whose
\* responses collection it goes to, and its fields
TapDocs ==
    { [id |-> "a", slide |-> 0,
       data |-> Response(Num(1, 2), Num(1, 2), Field("datetime", StartTime, 1))],
      [id |-> "b", slide |-> 1,
       data |-> Response(Num(0, 1), Num(1, 1), Field("datetime", StartTime, 1))] }

DocIds == {d.id : d \in TapDocs}

\* Firestore at the start: no response written; nothing delivered to the
\* responses listener; no call of _on_responses_snapshot in progress
NoFirestore == [responses |-> {}, delivered |-> {}, callback |-> <<>>]

InitIdle ==
    /\ current_slide_index = -1
    /\ hk_pc = [t \in Threads |-> "idle"]
    /\ new_slide_index = [t \in Threads |-> 0]
    /\ session_doc = [slides |-> 0, slideIndex |-> 0]
    /\ last_http_trigger_time = 0
    /\ trigger_counter = 0
    /\ watcher = NoWatcher
    /\ file_watcher = NoFileWatcher
    /\ trigger_file = <<>>
    /\ firestore = NoFirestore
    /\ signals = <<>>
    /\ add_dot_calls = [d \in DocIds |-> 0]
    /\ last = NoObs

InitOverlay ==
    /\ now = 0
    /\ horizon = MaxTime
    /\ max_slides = MaxSlides
    /\ start_time = 0
    /\ ignore_seconds = 0
    /\ monitor_index = 0
    /\ overlay \in {"SimpleOverlayWindow", "LinuxOverlayWindow"}
    /\ screen = [x |-> 0, y |-> 0, width |-> ScreenW, height |-> ScreenH]
    /\ fade_ms \in FadeChoices
    /\ dots = <<>>
    /\ cleanup_timer = IF overlay = "SimpleOverlayWindow" THEN "active" ELSE "absent"
    /\ InitIdle

NextOverlay ==
    \/ Tick
    \/ AddDot
    \/ ClearDots
    \/ _cleanup_dots
    \/ paintEvent
    \/ TapDot_get_alpha
    \/ TapDot_is_expired

SpecOverlay == InitOverlay /\ [][NextOverlay]_vars

\* ------------------------------------------------------------ DesktopHelper

\* screeninfo.get_monitors(): an even-sized primary monitor at the origin and
\* an odd-sized second monitor at another origin
Monitors ==
    <<[x |-> 0, y |-> 0, width |-> ScreenW, height |-> ScreenH - 1],
      [x |-> ScreenW, y |-> -1, width |-> ScreenW + 1, height |-> ScreenH]>>

_get_monitor_info(mi) == IF mi >= Len(Monitors) THEN Monitors[1] ELSE Monitors[mi + 1]

get_or_0_strict(f) == f

\* response_data.get(key, 0)
get_or_0(f) == IF f.kind = "missing" THEN Num(0, 1) ELSE f

\* ts_val of _on_new_response: <<seconds>>, or <<>> for None
ts_val(ts) == IF ts.kind \in {"datetime", "number"} THEN <<ts.num>> ELSE <<>>

\* the stale filter: true when _on_new_response returns at "Ignoring old response"
is_stale(resp, start, ignore) ==
    /\ ignore > 0
    /\ LET v == ts_val(resp.timestamp)
       IN  /\ v # <<>>
           /\ v[1] # 0
           /\ v[1] < start - ignore

abs_coord_round(f, extent, origin) == ((2 * f.num * extent + f.den) \div (2 * f.den)) + origin

\* int(x * monitor.width) + monitor.x
abs_coord(f, extent, origin) == Trunc(f.num * extent, f.den) + origin

slide_changed_forward(slide_index, cur) == slide_index > cur

\* slide_index != self.current_slide_index
slide_changed(slide_index, cur) == slide_index # cur

slide_mismatch_behind(slide_index, cur) == slide_index < cur

\* slide_index != self.current_slide_index, of _on_new_response
slide_mismatch(slide_index, cur) == slide_index # cur

SlideIndexes == 0..MaxSlides

\* tap responses the backend may deliver: in range and fresh; on the grace
\* boundary; older than the grace window (a number, the epoch); out of
\* range without a timestamp; a string for a timestamp; a string for x
Responses ==
    { Response(Num(1, 2), Num(1, 2), Field("datetime", StartTime, 1)),
      Response(Num(0, 1), Num(0, 1), Field("number", StartTime - Grace, 1)),
      Response(Num(1, 1), Num(1, 1), Field("number", StartTime - Grace - 1, 1)),
      Response(Num(1, 1), Num(1, 1), Field("number", 0, 1)),
      Response(Num(3, 2), Num(-1, 2), Missing),
      Response(Missing, Missing, Field("string", 0, 1)),
      Response(Field("string", 0, 1), Num(0, 1), Field("datetime", StartTime, 1)) }

\* _on_session_changed(session_data), a slot run on the Qt main thread
_on_session_changed(slide_index) ==
    /\ MainIdle
    /\ LET clears == slide_changed(slide_index, current_slide_index) /\ overlay # "None"
       IN  /\ dots' = IF clears THEN clear_dots(dots) ELSE dots
           /\ Observe("_on_session_changed", "main",
                      IF clears THEN {"clear_dots"} ELSE {},
                      [NoObs EXCEPT !.index = slide_index])
    /\ current_slide_index' = slide_index
    /\ UNCHANGED <<now, overlay, screen, fade_ms, cleanup_timer, configVars,
                   watcher, trigger_counter, fileVars, captureVars>>

SessionChanged ==
    /\ \E s \in SlideIndexes : _on_session_changed(s)
    /\ UNCHANGED sessionVars

\* _on_new_response(response_data, slide_index), a slot run on the Qt main thread
_on_new_response(resp, slide_index) ==
    LET x == get_or_0(resp.x)
        y == get_or_0(resp.y)
        monitor == _get_monitor_info(monitor_index)
        abs_x == abs_coord(x, monitor.width, monitor.x)
        abs_y == abs_coord(y, monitor.height, monitor.y)
        o == [NoObs EXCEPT !.resp = <<resp>>, !.index = slide_index]
        Skip(outcome) ==
            /\ Observe("_on_new_response", "main", {}, [o EXCEPT !.outcome = outcome])
            /\ UNCHANGED <<dots, cleanup_timer>>
    IN  /\ MainIdle
        /\ IF is_stale(resp, start_time, ignore_seconds)
           THEN Skip("stale")
           ELSE IF slide_mismatch(slide_index, current_slide_index)
           THEN Skip("mismatch")
           ELSE IF x.kind # "number" \/ y.kind # "number"
           THEN Skip("error")
           ELSE IF overlay = "None"
           THEN Skip("no_overlay")
           ELSE /\ add_dot(abs_x, abs_y)
                /\ Observe("_on_new_response", "main", {"add_dot"},
                           [o EXCEPT !.outcome = "added",
                                     !.point = <<abs_x, abs_y>>,
                                     !.drawn = paint(dots', now)])
        /\ UNCHANGED <<now, overlay, screen, fade_ms, configVars, watcher, trigger_counter, fileVars,
                       current_slide_index, captureVars>>

NewResponse ==
    /\ \E r \in Responses, i \in SlideIndexes : _on_new_response(r, i)
    /\ UNCHANGED sessionVars

hk_clear_skipped(t) ==
    /\ hk_pc[t] = "idle"
    /\ session_doc.slides
          + Cardinality({u \in Threads : hk_pc[u] \in {"capture", "set"}})
          < max_slides
    /\ hk_pc' = [hk_pc EXCEPT ![t] = "capture"]
    /\ Observe("_on_hotkey_pressed", t, {}, NoObs)
    /\ UNCHANGED <<now, overlayVars, configVars, serviceVars, current_slide_index,
                   new_slide_index, session_doc>>

\* the first lines of _on_hotkey_pressed, run by thread t: clear the overlay
hk_clear(t) ==
    /\ hk_pc[t] = "idle"
    /\ session_doc.slides
          + Cardinality({u \in Threads : hk_pc[u] \in {"capture", "set"}})
          < max_slides
    /\ hk_pc' = [hk_pc EXCEPT ![t] = "capture"]
    /\ dots' = IF overlay # "None" THEN clear_dots(dots) ELSE dots
    /\ Observe("_on_hotkey_pressed", t,
               IF overlay # "None" THEN {"clear_dots"} ELSE {}, NoObs)
    /\ UNCHANGED <<now, overlay, screen, fade_ms, cleanup_timer, configVars, serviceVars,
                   current_slide_index, new_slide_index, session_doc>>

\* WM_HOTKEY dispatched by _pump_messages on the Qt main thread
hotkey ==
    /\ hk_clear("main")
    /\ UNCHANGED last_http_trigger_time

in_cooldown_le(current_time, last_time) ==
    current_time - last_time <= HTTP_TRIGGER_COOLDOWN_MS

\* the cooldown test of handle_http_trigger
in_cooldown(current_time, last_time) ==
    current_time - last_time < HTTP_TRIGGER_COOLDOWN_MS

\* handle_http_trigger on the HTTP server thread, followed step by step: the
\* cooldown, then the first step of the callback
handle_http_trigger ==
    LET current_time == now * 1000
    IN  IF in_cooldown(current_time, last_http_trigger_time)
        THEN /\ hk_pc["http"] = "idle"
             /\ Observe("handle_http_trigger", "http", {}, NoObs)
             /\ UNCHANGED <<now, overlayVars, configVars, serviceVars, current_slide_index,
                            captureVars>>
        ELSE /\ last_http_trigger_time' = current_time
             /\ hk_clear("http")

\* the file-watcher thread sees the trigger file and calls the callback
_watch_file ==
    /\ hk_clear("file")
    /\ UNCHANGED last_http_trigger_time

\* _capture_screenshot, _upload_screenshot, then session_ref.get() of
\* _update_session_document (new_slide_index = len(slides)): any may fail
hk_capture(t) ==
    /\ hk_pc[t] = "capture"
    /\ \E ok \in BOOLEAN :
          IF ok
          THEN /\ hk_pc' = [hk_pc EXCEPT ![t] = "set"]
               /\ new_slide_index' = [new_slide_index EXCEPT ![t] = session_doc.slides]
               /\ Observe("_update_session_document.get", t, {}, NoObs)
          ELSE /\ hk_pc' = [hk_pc EXCEPT ![t] = "idle"]
               /\ UNCHANGED new_slide_index
               /\ Observe("_update_session_document.get", t, {},
                          [NoObs EXCEPT !.outcome = "failed"])
    /\ UNCHANGED <<now, overlayVars, configVars, serviceVars, current_slide_index,
                   session_doc, last_http_trigger_time>>

hk_doc_set_unchecked(t) ==
    /\ hk_pc[t] = "set"
    /\ \E ok \in BOOLEAN :
          IF ok
          THEN /\ hk_pc' = [hk_pc EXCEPT ![t] = "assign"]
               /\ session_doc' = [slides |-> session_doc.slides + 1,
                                  slideIndex |-> new_slide_index[t]]
               /\ Observe("_update_session_document.set", t, {}, NoObs)
          ELSE /\ hk_pc' = [hk_pc EXCEPT ![t] = "assign"]
               /\ UNCHANGED session_doc
               /\ Observe("_update_session_document.set", t, {},
                          [NoObs EXCEPT !.outcome = "failed"])
    /\ UNCHANGED <<now, overlayVars, configVars, serviceVars, current_slide_index,
                   new_slide_index, last_http_trigger_time>>

\* _update_session_document: session_ref.set(ArrayUnion([url]), slideIndex);
\* when it raises, None is returned and _on_hotkey_pressed assigns nothing
hk_doc_set(t) ==
    /\ hk_pc[t] = "set"
    /\ \E ok \in BOOLEAN :
          IF ok
          THEN /\ hk_pc' = [hk_pc EXCEPT ![t] = "assign"]
               /\ session_doc' = [slides |-> session_doc.slides + 1,
                                  slideIndex |-> new_slide_index[t]]
               /\ Observe("_update_session_document.set", t, {}, NoObs)
          ELSE /\ hk_pc' = [hk_pc EXCEPT ![t] = "idle"]
               /\ UNCHANGED session_doc
               /\ Observe("_update_session_document.set", t, {},
                          [NoObs EXCEPT !.outcome = "failed"])
    /\ UNCHANGED <<now, overlayVars, configVars, serviceVars, current_slide_index,
                   new_slide_index, last_http_trigger_time>>

\* self.current_slide_index = new_slide_index
hk_assign(t) ==
    /\ hk_pc[t] = "assign"
    /\ hk_pc' = [hk_pc EXCEPT ![t] = "idle"]
    /\ current_slide_index' = new_slide_index[t]
    /\ Observe("_on_hotkey_pressed.assign", t, {}, NoObs)
    /\ UNCHANGED <<now, overlayVars, configVars, serviceVars, new_slide_index, session_doc,
                   last_http_trigger_time>>

Capture == \E t \in Threads : hk_capture(t)

DocSet == \E t \in Threads : hk_doc_set(t)

Assign == \E t \in Threads : hk_assign(t)

\* DesktopHelper.__init__ and run(): the overlay is a SimpleOverlayWindow over
\* the configured monitor, or None when _setup_overlay failed
Init ==
    /\ now = StartTime
    /\ horizon = StartTime + HelperTime
    /\ max_slides = MaxSlides
    /\ start_time = StartTime
    /\ ignore_seconds \in {0, Grace}
    /\ monitor_index \in 1..Len(Monitors)
    /\ overlay \in {"SimpleOverlayWindow", "None"}
    /\ screen = _get_monitor_info(monitor_index)
    /\ fade_ms = 1000
    /\ dots = <<>>
    /\ cleanup_timer = "active"
    /\ InitIdle

Next ==
    \/ Tick
    \/ _cleanup_dots
    \/ SessionChanged
    \/ NewResponse
    \/ hotkey
    \/ handle_http_trigger
    \/ _watch_file
    \/ Capture
    \/ DocSet
    \/ Assign

Spec == Init /\ [][Next]_vars

\* the capture triggers on their own: a helper that receives no responses and
\* whose three trigger threads may capture at the same time
InitCapture ==
    /\ now = StartTime
    /\ horizon = StartTime + HelperTime
    /\ max_slides = MaxCaptures
    /\ start_time = StartTime
    /\ ignore_seconds = 0
    /\ monitor_index = 0
    /\ overlay \in {"SimpleOverlayWindow", "None"}
    /\ screen = _get_monitor_info(monitor_index)
    /\ fade_ms = 1000
    /\ dots = <<>>
    /\ cleanup_timer = "active"
    /\ InitIdle

NextCapture ==
    \/ Tick
    \/ hotkey
    \/ handle_http_trigger
    \/ _watch_file
    \/ Capture
    \/ DocSet
    \/ Assign

SpecCapture == InitCapture /\ [][NextCapture]_vars

\* ---------------------------------------------------------- FirestoreWatcher

helperVars == <<now, overlayVars, configVars, current_slide_index, captureVars>>

\* what a snapshot callback or stop() did: the signals it emitted, in order
WatcherObs(op, th, emitted) ==
    last' = [NoObs EXCEPT !.op = op, !.thread = th, !.emitted = emitted,
                          !.pre_dots = dots, !.pre_index = current_slide_index,
                          !.pre_watcher = <<watcher>>]

\* FirestoreWatcher.run on the watcher thread: subscribe to the session document
FirestoreWatcher_run ==
    /\ watcher.session_listener = "none"
    /\ watcher' = [watcher EXCEPT !.session_listener = "subscribed"]
    /\ WatcherObs("run", "watcher", <<>>)
    /\ UNCHANGED <<helperVars, trigger_counter, fileVars, sessionVars>>

\* all of a sequence but its last entry
Front(s) == SubSeq(s, 1, Len(s) - 1)

\* responses_listener.unsubscribe(): the listener held, which is the one
\* subscribed last, is subscribed no more; on a closed listener it does nothing
unsubscribe(w) == IF w.responses_listener = "subscribed" THEN Front(w.live) ELSE w.live

_update_responses_listener_keep(w, slide_index, ok) ==
    [w EXCEPT !.current_slide_index = slide_index,
              !.responses_listener = IF ok THEN "subscribed" ELSE "none",
              !.watched = IF ok THEN slide_index ELSE -1,
              !.live = IF ok THEN Append(w.live, slide_index) ELSE w.live]

\* _update_responses_listener(slide_index): unsubscribe the listener it holds,
\* record the slide, subscribe to the slide's responses (which may raise)
_update_responses_listener(w, slide_index, ok) ==
    [w EXCEPT !.current_slide_index = slide_index,
              !.responses_listener = IF ok THEN "subscribed" ELSE "none",
              !.watched = IF ok THEN slide_index ELSE -1,
              !.live = IF ok THEN Append(unsubscribe(w), slide_index)
                       ELSE unsubscribe(w)]

\* the slideIndex fields a session snapshot may carry
SessionIndexes == {Missing} \cup {Num(k, 1) : k \in 0..MaxCaptures}

\* _on_session_snapshot, called by the Firestore client for as long as the
\* session listener is subscribed
_on_session_snapshot(exists, slideIndex, ok) ==
    /\ watcher.session_listener = "subscribed"
    /\ LET new_index == get_or_0(slideIndex).num
       IN  /\ watcher' =
                 IF exists /\ new_index # watcher.current_slide_index
                 THEN _update_responses_listener(watcher, new_index, ok)
                 ELSE watcher
           /\ WatcherObs("_on_session_snapshot", "firestore",
                         IF exists
                         THEN <<[signal |-> "session_changed", index |-> new_index]>>
                         ELSE <<>>)
    /\ UNCHANGED <<helperVars, trigger_counter, fileVars>>

SessionSnapshot ==
    /\ \E exists \in BOOLEAN, i \in SessionIndexes, ok \in BOOLEAN :
          _on_session_snapshot(exists, i, ok)
    /\ UNCHANGED sessionVars

\* the changes a responses snapshot may carry: [type, document]
ChangeTypes == {"ADDED", "MODIFIED", "REMOVED"}

SnapshotDocs == {r \in Responses : r.timestamp.kind \in {"datetime", "missing"}}

Change(type, doc) == [type |-> type, document |-> doc]

Changes ==
    LET One == {Change(a, d) : a \in ChangeTypes, d \in SnapshotDocs}
    IN  {<<>>} \cup {<<c>> : c \in One} \cup {<<c, d>> : c, d \in One}

\* _on_responses_snapshot: emit new_response for every ADDED change, with the
\* watcher's current slide index
_on_responses_snapshot(changes) ==
    /\ watcher.responses_listener = "subscribed"
    /\ LET added == SelectSeq(changes, LAMBDA c : c.type = "ADDED")
       IN  WatcherObs("_on_responses_snapshot", "firestore",
                      [k \in 1..Len(added) |->
                          [signal |-> "new_response",
                           data |-> added[k].document,
                           index |-> watcher.current_slide_index]])
    /\ UNCHANGED <<helperVars, serviceVars>>

ResponsesSnapshot == \E c \in Changes : _on_responses_snapshot(c)

\* FirestoreWatcher.stop, called by DesktopHelper._cleanup on the main thread
FirestoreWatcher_stop ==
    /\ ~watcher.stopped
    /\ watcher' = [watcher EXCEPT
                      !.stopped = TRUE,
                      !.responses_listener =
                          IF @ = "subscribed" THEN "unsubscribed" ELSE @,
                      !.live = unsubscribe(watcher)]
    /\ WatcherObs("stop", "main", <<>>)
    /\ UNCHANGED <<helperVars, trigger_counter, fileVars, sessionVars>>

InitWatcher ==
    /\ now = StartTime
    /\ horizon = StartTime
    /\ max_slides = MaxSlides
    /\ start_time = StartTime
    /\ ignore_seconds = 0
    /\ monitor_index = 0
    /\ overlay = "SimpleOverlayWindow"
    /\ screen = _get_monitor_info(monitor_index)
    /\ fade_ms = 1000
    /\ dots = <<>>
    /\ cleanup_timer = "active"
    /\ InitIdle

NextWatcher ==
    \/ FirestoreWatcher_run
    \/ SessionSnapshot
    \/ ResponsesSnapshot
    \/ FirestoreWatcher_stop

SpecWatcher == InitWatcher /\ [][NextWatcher]_vars

\* the watcher fed by the session document: a snapshot carries the slideIndex
\* the document holds

\* a client of the session moves slideIndex to another slide
SetSlide ==
    /\ \E i \in 0..(max_slides - 1) :
          /\ i # session_doc.slideIndex
          /\ session_doc' = [session_doc EXCEPT !.slideIndex = i]
    /\ WatcherObs("set_slideIndex", "client", <<>>)
    /\ UNCHANGED <<now, overlayVars, configVars, serviceVars, current_slide_index,
                   hk_pc, new_slide_index, last_http_trigger_time>>

\* the session listener is called with the document as it is
DocSnapshot ==
    /\ \E ok \in BOOLEAN :
          _on_session_snapshot(TRUE, Num(session_doc.slideIndex, 1), ok)
    /\ UNCHANGED sessionVars

\* a session snapshot after which the watcher is not as it was, the
\* subscription it makes succeeding
Resubscribe ==
    /\ _on_session_snapshot(TRUE, Num(session_doc.slideIndex, 1), TRUE)
    /\ watcher' # watcher
    /\ UNCHANGED sessionVars

\* a helper over the primary monitor whose session has n slides
InitSessionOf(n) ==
    /\ now = StartTime
    /\ horizon = StartTime
    /\ max_slides = n
    /\ start_time = StartTime
    /\ ignore_seconds = 0
    /\ monitor_index = 0
    /\ overlay = "SimpleOverlayWindow"
    /\ screen = _get_monitor_info(monitor_index)
    /\ fade_ms = 1000
    /\ dots = <<>>
    /\ cleanup_timer = "active"
    /\ InitIdle

InitWatcherLive == InitSessionOf(MaxCaptures + 1)

NextWatcherLive ==
    \/ FirestoreWatcher_run
    \/ SetSlide
    \/ DocSnapshot
    \/ ResponsesSnapshot

\* the session listener goes on being called, and a subscription that is
\* tried again and again succeeds in the end
SpecWatcherLive ==
    /\ InitWatcherLive
    /\ [][NextWatcherLive]_vars
    /\ WF_vars(FirestoreWatcher_run)
    /\ WF_vars(Resubscribe)

\* --------------------------------------------- watcher and helper together

\* a student taps on the slide the session shows: a response document is
\* written to that slide's responses collection
Tap ==
    /\ \E d \in TapDocs \ firestore.responses :
          /\ d.slide = session_doc.slideIndex
          /\ firestore' = [firestore EXCEPT !.responses = @ \cup {d}]
    /\ WatcherObs("tap", "client", <<>>)
    /\ UNCHANGED <<helperVars, watcher, trigger_counter, fileVars, signals,
                   add_dot_calls>>

\* _on_session_snapshot called with the document, the signal it emits being
\* queued for the main thread; a responses listener subscribed anew has
\* delivered nothing yet
SessionSnapshotQueued ==
    /\ Len(signals) < MaxQueue
    /\ \E ok \in BOOLEAN :
          _on_session_snapshot(TRUE, Num(session_doc.slideIndex, 1), ok)
    /\ signals' = signals \o last'.emitted
    /\ firestore' = IF watcher' # watcher
                    THEN [firestore EXCEPT !.delivered = {}]
                    ELSE firestore
    /\ UNCHANGED add_dot_calls

\* the Firestore client calls _on_responses_snapshot, on the thread of the
\* subscribed responses listener, with a document of the slide's collection
\* that listener has not delivered yet, as an ADDED change; for a listener
\* just subscribed these are all the documents in the collection
ResponsesCallback_begin ==
    /\ watcher.live # <<>>
    /\ firestore.callback = <<>>
    /\ \E d \in firestore.responses \ firestore.delivered :
          /\ d.slide = watcher.live[Len(watcher.live)]
          /\ firestore' = [firestore EXCEPT !.delivered = @ \cup {d},
                                            !.callback = <<d>>]
    /\ WatcherObs("_on_responses_snapshot.begin", "firestore", <<>>)
    /\ UNCHANGED <<helperVars, watcher, trigger_counter, fileVars, signals,
                   add_dot_calls>>

\* the body of the loop of _on_responses_snapshot: emit new_response with the
\* document and self.current_slide_index as it is when the line runs; doc and
\* slide say which document the signal is about
ResponsesCallback_emit ==
    /\ firestore.callback # <<>>
    /\ Len(signals) < MaxQueue
    /\ LET d == firestore.callback[1]
           sig == [signal |-> "new_response", data |-> d.data,
                   index |-> watcher.current_slide_index,
                   doc |-> d.id, slide |-> d.slide]
       IN  /\ signals' = Append(signals, sig)
           /\ WatcherObs("_on_responses_snapshot", "firestore", <<sig>>)
    /\ firestore' = [firestore EXCEPT !.callback = <<>>]
    /\ UNCHANGED <<helperVars, watcher, trigger_counter, fileVars, add_dot_calls>>

\* the Qt main thread takes the oldest signal and runs its slot
DispatchSessionChanged ==
    /\ signals # <<>>
    /\ Head(signals).signal = "session_changed"
    /\ signals' = Tail(signals)
    /\ _on_session_changed(Head(signals).index)
    /\ UNCHANGED <<firestore, add_dot_calls>>

DispatchNewResponse ==
    /\ signals # <<>>
    /\ Head(signals).signal = "new_response"
    /\ add_dot_calls[Head(signals).doc] < MaxAddCalls
    /\ signals' = Tail(signals)
    /\ _on_new_response(Head(signals).data, Head(signals).index)
    /\ add_dot_calls' =
          IF "add_dot" \in last'.called
          THEN [add_dot_calls EXCEPT ![Head(signals).doc] = @ + 1]
          ELSE add_dot_calls
    /\ UNCHANGED firestore

InitSession == InitSessionOf(MaxCaptures)

NextSession ==
    \/ FirestoreWatcher_run
    \/ SetSlide
    \/ Tap
    \/ SessionSnapshotQueued
    \/ ResponsesCallback_begin
    \/ ResponsesCallback_emit
    \/ DispatchSessionChanged
    \/ DispatchNewResponse

SpecSession == InitSession /\ [][NextSession]_vars

\* -------------------------------------------------------- FileWatcherTrigger

file_is_newer_ge(current_modified, last_modified) == current_modified >= last_modified

\* current_modified > self.last_modified
file_is_newer(current_modified, last_modified) == current_modified > last_modified

\* the modification times a trigger file may get: the time it is touched, or
\* an older time (a file copied with its time kept)
Mtimes == {now, StartTime - 1}

\* somebody creates or touches the trigger file
Touch ==
    /\ \E m \in Mtimes : trigger_file' = <<m>>
    /\ trigger_file' # trigger_file
    /\ Observe("touch", "user", {}, NoObs)
    /\ UNCHANGED <<now, overlayVars, configVars, watcher, trigger_counter, sessionVars, file_watcher,
                   current_slide_index, captureVars>>

\* one pass of the loop of _watch_file, up to the call of the callback: when
\* the file is there and newer than last_modified, record its time and enter
\* _on_hotkey_pressed, which clears the overlay first
FileWatcherTrigger_poll ==
    /\ file_watcher.running
    /\ file_watcher.pc = "poll"
    /\ hk_pc["file"] = "idle"
    /\ IF trigger_file # <<>> /\ file_is_newer(trigger_file[1], file_watcher.last_modified)
       THEN /\ session_doc.slides < max_slides
            /\ file_watcher' = [file_watcher EXCEPT !.last_modified = trigger_file[1],
                                                    !.pc = "callback"]
            /\ hk_pc' = [hk_pc EXCEPT !["file"] = "capture"]
            /\ dots' = IF overlay # "None" THEN clear_dots(dots) ELSE dots
            /\ Observe("_watch_file", "file",
                       IF overlay # "None" THEN {"callback", "clear_dots"}
                       ELSE {"callback"}, NoObs)
       ELSE /\ Observe("_watch_file", "file", {}, NoObs)
            /\ UNCHANGED <<file_watcher, hk_pc, dots>>
    /\ UNCHANGED <<now, overlay, screen, fade_ms, cleanup_timer, configVars, watcher,
                   trigger_counter, trigger_file, sessionVars, current_slide_index,
                   new_slide_index, session_doc, last_http_trigger_time>>

\* the callback has returned: os.remove(self.trigger_file), a failure of which
\* is swallowed, then the sleep before the next pass
FileWatcherTrigger_remove ==
    /\ file_watcher.pc = "callback"
    /\ hk_pc["file"] = "idle"
    /\ \E ok \in BOOLEAN : trigger_file' = IF ok THEN <<>> ELSE trigger_file
    /\ file_watcher' = [file_watcher EXCEPT !.pc = "poll"]
    /\ Observe("_watch_file.remove", "file", {}, NoObs)
    /\ UNCHANGED <<now, overlayVars, configVars, watcher, trigger_counter, sessionVars,
                   current_slide_index, captureVars>>

\* FileWatcherTrigger.stop, on the main thread
FileWatcherTrigger_stop ==
    /\ file_watcher.running
    /\ file_watcher' = [file_watcher EXCEPT !.running = FALSE]
    /\ \E ok \in BOOLEAN : trigger_file' = IF ok THEN <<>> ELSE trigger_file
    /\ Observe("FileWatcherTrigger.stop", "main", {}, NoObs)
    /\ UNCHANGED <<now, overlayVars, configVars, watcher, trigger_counter, sessionVars,
                   current_slide_index, captureVars>>

InitFile ==
    /\ now = StartTime
    /\ horizon = StartTime + HelperTime
    /\ max_slides = MaxCaptures
    /\ start_time = StartTime
    /\ ignore_seconds = 0
    /\ monitor_index = 0
    /\ overlay \in {"SimpleOverlayWindow", "None"}
    /\ screen = _get_monitor_info(monitor_index)
    /\ fade_ms = 1000
    /\ dots = <<>>
    /\ cleanup_timer = "active"
    /\ InitIdle

NextFile ==
    \/ Tick
    \/ Touch
    \/ FileWatcherTrigger_poll
    \/ Capture
    \/ DocSet
    \/ Assign
    \/ FileWatcherTrigger_remove
    \/ FileWatcherTrigger_stop

SpecFile == InitFile /\ [][NextFile]_vars

\* ----------------------------------------------------- ScreenshotHTTPServer

\* a request target as its parts: "/capture?t=1" is <<"/capture", "?", "t=1">>
RawPaths ==
    { <<"/capture">>, <<"/capture", "?", "t=1">>, <<"/ping">>,
      <<"/ping", "?", "/capture">>, <<"/">>, <<"/", "?", "/capture">>,
      <<"/capture", "/">>, <<"/other">>, <<"?", "/capture">> }

split_query_tail(raw) ==
    LET q == {i \in 1..Len(raw) : raw[i] = "?"}
    IN  IF q = {} THEN raw
        ELSE SubSeq(raw, (CHOOSE i \in q : \A j \in q : i <= j) + 1, Len(raw))

\* self.path.split('?')[0]
split_query(raw) ==
    LET q == {i \in 1..Len(raw) : raw[i] = "?"}
    IN  IF q = {} THEN raw
        ELSE SubSeq(raw, 1, (CHOOSE i \in q : \A j \in q : i <= j) - 1)

\* do_GET on the HTTP server thread, which serves one request at a time; the
\* callback (_on_hotkey_pressed) runs to its end inside handle_http_trigger:
\* it clears the overlay, then the capture, the upload or the session update
\* fails (ok = FALSE), or a slide is appended and becomes the current slide.
\* _on_hotkey_pressed catches what the pipeline raises and returns nothing, so
\* handle_http_trigger returns its success text whenever it called the callback
do_GET(raw, ok) ==
    LET path == split_query(raw)
        current_time == now * 1000
        o == [NoObs EXCEPT !.request = <<raw>>]
        Answer(status, called, result) ==
            Observe("do_GET", "http", called,
                    [o EXCEPT !.status = status, !.outcome = result])
    IN  /\ hk_pc["http"] = "idle"
        /\ IF path = <<"/capture">>
           THEN /\ trigger_counter < MaxRequests
                /\ trigger_counter' = trigger_counter + 1
                /\ IF in_cooldown(current_time, last_http_trigger_time)
                   THEN /\ Answer(200, {}, "Cooldown active - please wait")
                        /\ UNCHANGED <<dots, session_doc, current_slide_index,
                                       last_http_trigger_time>>
                   ELSE /\ last_http_trigger_time' = current_time
                        /\ dots' = IF overlay # "None" THEN clear_dots(dots) ELSE dots
                        /\ Answer(200,
                                  IF overlay # "None"
                                  THEN {"callback", "clear_dots"}
                                  ELSE {"callback"},
                                  "Screenshot captured and uploaded successfully!")
                        /\ IF ok
                           THEN /\ session_doc.slides < max_slides
                                /\ session_doc' =
                                      [slides |-> session_doc.slides + 1,
                                       slideIndex |-> session_doc.slides]
                                /\ current_slide_index' = session_doc.slides
                           ELSE UNCHANGED <<session_doc, current_slide_index>>
           ELSE /\ Answer(IF path \in {<<"/ping">>, <<"/">>} THEN 200 ELSE 404, {}, "")
                /\ UNCHANGED <<dots, session_doc, current_slide_index,
                               last_http_trigger_time, trigger_counter>>
        /\ UNCHANGED <<now, overlay, screen, fade_ms, cleanup_timer, configVars,
                       hk_pc, new_slide_index, watcher, fileVars,
                       sessionVars>>

Request == \E raw \in RawPaths, ok \in BOOLEAN : do_GET(raw, ok)

InitHttp ==
    /\ now = StartTime
    /\ horizon = StartTime + MaxTime
    /\ max_slides = MaxCaptures
    /\ start_time = StartTime
    /\ ignore_seconds = 0
    /\ monitor_index = 0
    /\ overlay \in {"SimpleOverlayWindow", "None"}
    /\ screen = _get_monitor_info(monitor_index)
    /\ fade_ms = 1000
    /\ dots = <<>>
    /\ cleanup_timer = "active"
    /\ InitIdle

NextHttp ==
    \/ Tick
    \/ Request

SpecHttp == InitHttp /\ [][NextHttp]_vars

\* ------------------------------------------- OverlayWindow (helper/overlay.py)

\* the element of self.dots is a TapDot object (and not a tuple)
IsTapDot(d) == DOMAIN d = DOMAIN TapDot(0, 0)

\* the elements of a list read one after the other: evaluating is_expired()
\* on a tuple raises AttributeError
raises_on(d) == \E i \in 1..Len(d) : ~IsTapDot(d[i])

\* OverlayWindow.add_dot(x, y): append the tuple (x, y, timestamp) and repaint;
\* the first call then makes self.cleanup_timer and raises AttributeError at
\* self._cleanup_dots, a method the class does not have
OverlayWindow_add_dot ==
    \E p \in DotPoints :
        /\ overlay = "OverlayWindow"
        /\ Len(dots) < MaxDots
        /\ dots' = Append(dots, Dot(p[1], p[2], now))
        /\ cleanup_timer' = "stopped"
        /\ Observe("add_dot", "main", {"add_dot"},
                   [NoObs EXCEPT !.point = p,
                                 !.outcome = IF cleanup_timer = "absent"
                                             THEN "AttributeError" ELSE ""])
        /\ UNCHANGED <<now, overlay, screen, fade_ms, configVars, serviceVars,
                       current_slide_index, captureVars>>

\* OverlayWindow.clear_dots
OverlayWindow_clear_dots ==
    /\ overlay = "OverlayWindow"
    /\ dots' = clear_dots(dots)
    /\ Observe("clear_dots", "main", {"clear_dots"}, NoObs)
    /\ UNCHANGED <<now, overlay, screen, fade_ms, cleanup_timer, configVars, serviceVars,
                   current_slide_index, captureVars>>

\* OverlayWindow._update_dots, the timeout of update_timer every 50 ms: keep
\* the elements whose is_expired() is false
_update_dots ==
    /\ overlay = "OverlayWindow"
    /\ IF dots = <<>>
       THEN /\ Observe("_update_dots", "main", {}, NoObs)
            /\ UNCHANGED dots
       ELSE IF raises_on(dots)
       THEN /\ Observe("_update_dots", "main", {},
                       [NoObs EXCEPT !.outcome = "AttributeError"])
            /\ UNCHANGED dots
       ELSE /\ dots' = SelectSeq(dots, LAMBDA dot : ~is_expired(dot, now))
            /\ Observe("_update_dots", "main", {"_update_dots"}, NoObs)
    /\ UNCHANGED <<now, overlay, screen, fade_ms, cleanup_timer, configVars, serviceVars,
                   current_slide_index, captureVars>>

\* OverlayWindow.paintEvent: the filter reads self.DOT_DURATION, which the
\* class does not set, as soon as there is an element to test
OverlayWindow_paintEvent ==
    /\ overlay = "OverlayWindow"
    /\ Observe("paintEvent", "main", {},
               [NoObs EXCEPT !.outcome = IF dots # <<>> THEN "AttributeError" ELSE ""])
    /\ UNCHANGED <<now, overlayVars, configVars, serviceVars, current_slide_index,
                   captureVars>>

\* MinimalDesktopHelper._setup_overlay: an OverlayWindow over the monitor
InitOverlayWindow ==
    /\ now = 0
    /\ horizon = MaxTime
    /\ max_slides = MaxSlides
    /\ start_time = 0
    /\ ignore_seconds = 0
    /\ monitor_index = 0
    /\ overlay = "OverlayWindow"
    /\ screen = [x |-> 0, y |-> 0, width |-> ScreenW, height |-> ScreenH]
    /\ fade_ms \in FadeChoices
    /\ dots = <<>>
    /\ cleanup_timer = "absent"
    /\ InitIdle

NextOverlayWindow ==
    \/ Tick
    \/ OverlayWindow_add_dot
    \/ OverlayWindow_clear_dots
    \/ _update_dots
    \/ OverlayWindow_paintEvent

SpecOverlayWindow == InitOverlayWindow /\ [][NextOverlayWindow]_vars

\* ------------------------------------------------------- claims, SpecOverlay

\* how many members of S are <= i
Rank(i, S) == Cardinality({j \in S : j <= i})

InBounds(dot) ==
    /\ 0 <= dot.x /\ dot.x <= screen.width + 5
    /\ 0 <= dot.y /\ dot.y <= screen.height + 5

AgeMs(dot) == (now - dot.timestamp) * 1000

Painted == last.op \in {"paintEvent", "add_dot"}

ElapsedMs(td) == now * 1000 - td.created_time

\* C1: after the eviction sweep the collection holds exactly the dots of the
\* collection it began with whose age is strictly less than the fade duration,
\* each unmodified and in the original relative order; every dot whose age is
\* >= the fade duration is gone.
C1_EvictExactly ==
    last.op = "_cleanup_dots" =>
        LET pre == last.pre_dots
            S == {i \in 1..Len(pre) : (now - pre[i].timestamp) * 1000 < fade_ms}
        IN  /\ Len(dots) = Cardinality(S)
            /\ \A i \in S : dots[Rank(i, S)] = pre[i]
            /\ \A j \in 1..Len(dots) : AgeMs(dots[j]) < fade_ms

\* a sweep that removed some dots and kept others
C1_Witness ==
    /\ last.op = "_cleanup_dots"
    /\ Len(dots) > 0
    /\ Len(dots) < Len(last.pre_dots)

\* C2 (as claimed): with a fade duration <= 0 the eviction sweep removes no dot,
\* the paint pass draws every dot inside the widget, and draws it fully opaque.
C2_NeverFades ==
    fade_ms <= 0 =>
        /\ last.op = "_cleanup_dots" => dots = last.pre_dots
        /\ Painted =>
              \A i \in 1..Len(dots) :
                  InBounds(dots[i]) =>
                      \E k \in 1..Len(last.drawn) :
                          /\ last.drawn[k].x = dots[i].x
                          /\ last.drawn[k].y = dots[i].y
                          /\ last.drawn[k].timestamp = dots[i].timestamp
                          /\ last.drawn[k].alpha = 255
        /\ last.alpha # <<>> => last.alpha[1] = last.alpha[2]

\* C3: with a fade duration > 0, at elapsed time 0 the opacity is exactly 1
\* (get_alpha returns 1, the paint pass draws with alpha 255); at every elapsed
\* time >= the fade duration get_alpha returns 0, is_expired returns true, the
\* paint pass does not draw the dot and the eviction sweep does not keep it.
C3_FadeEndpoints ==
    fade_ms > 0 =>
        /\ last.op = "get_alpha" =>
              /\ ElapsedMs(last.tapdot[1]) = 0 => last.alpha[1] = last.alpha[2]
              /\ ElapsedMs(last.tapdot[1]) >= fade_ms => last.alpha[1] = 0
        /\ last.op = "is_expired" /\ ElapsedMs(last.tapdot[1]) >= fade_ms
              => last.expired = <<TRUE>>
        /\ Painted =>
              /\ \A k \in 1..Len(last.drawn) :
                    /\ (now - last.drawn[k].timestamp) * 1000 < fade_ms
                    /\ last.drawn[k].timestamp = now => last.drawn[k].alpha = 255
              /\ \A i \in 1..Len(dots) :
                    (AgeMs(dots[i]) = 0
                        /\ (overlay = "SimpleOverlayWindow" => InBounds(dots[i])))
                    => \E k \in 1..Len(last.drawn) :
                          /\ last.drawn[k].timestamp = now
                          /\ last.drawn[k].x = dots[i].x
                          /\ last.drawn[k].y = dots[i].y
        /\ last.op = "_cleanup_dots" =>
              \A j \in 1..Len(dots) : AgeMs(dots[j]) < fade_ms

\* is_expired read on a TapDot whose fade window has passed
C3_Witness ==
    /\ fade_ms > 0
    /\ last.op = "is_expired"
    /\ ElapsedMs(last.tapdot[1]) >= fade_ms
    /\ last.expired = <<TRUE>>

\* C4: every opacity read at a time >= the dot's creation time lies in [0,1]:
\* get_alpha returns num/den with 0 <= num <= den, and every alpha the paint
\* pass draws with lies in 0..255.
C4_OpacityRange ==
    /\ last.alpha # <<>> =>
          /\ last.alpha[2] > 0
          /\ 0 <= last.alpha[1]
          /\ last.alpha[1] <= last.alpha[2]
    /\ \A k \in 1..Len(last.drawn) :
          /\ 0 <= last.drawn[k].alpha
          /\ last.drawn[k].alpha <= 255

\* a paint pass that drew a partly faded dot
C4_Witness ==
    /\ last.op = "paintEvent"
    /\ \E k \in 1..Len(last.drawn) :
          /\ last.drawn[k].alpha > 0
          /\ last.drawn[k].alpha < 255

\* C5: every clear_dots leaves the collection empty, whatever it held, and an
\* add_dot that follows it yields the collection holding the new dot alone.
C5_ClearAll ==
    [][/\ last'.op = "clear_dots" => dots' = <<>>
       /\ (last.op = "clear_dots" /\ last'.op = "add_dot") =>
              /\ last'.pre_dots = <<>>
              /\ Len(dots') = 1]_vars

\* clear_dots on a collection holding an expired dot and a live one
C5_Witness ==
    /\ last.op = "clear_dots"
    /\ dots = <<>>
    /\ \E i, j \in 1..Len(last.pre_dots) :
          /\ (now - last.pre_dots[i].timestamp) * 1000 >= fade_ms
          /\ (now - last.pre_dots[j].timestamp) * 1000 < fade_ms

\* -------------------------------------------------------------- claims, Spec

IsNewResponse == last.op = "_on_new_response"

Added == IsNewResponse /\ "add_dot" \in last.called

Monitor == _get_monitor_info(monitor_index)

InUnit(f) == f.kind = "number" /\ 0 <= f.num /\ f.num <= f.den

OutOfRange(f) == f.kind = "number" /\ (f.num < 0 \/ f.num > f.den)

HasTime(ts) == ts.kind \in {"number", "datetime"}

\* the timestamp is earlier than start_time - g
BeforeGrace(ts) == HasTime(ts) /\ ts.num < start_time - ignore_seconds

\* C6: for a tap (nx, ny) in [0,1]x[0,1] and the target monitor (x, y, width,
\* height), the point _on_new_response passes to add_dot is
\* (floor(nx*width) + x, floor(ny*height) + y), and that is where the new dot
\* is; (0,0) goes to (x, y), (1,1) to (x+width, y+height) and (1/2,1/2) to the
\* pixel holding the centre of the region.
C6_Mapping ==
    Added /\ InUnit(last.resp[1].x) /\ InUnit(last.resp[1].y) =>
        LET nx == last.resp[1].x
            ny == last.resp[1].y
            px == last.point[1]
            py == last.point[2]
        IN  /\ px = ((nx.num * Monitor.width) \div nx.den) + Monitor.x
            /\ py = ((ny.num * Monitor.height) \div ny.den) + Monitor.y
            /\ dots[Len(dots)].x = px
            /\ dots[Len(dots)].y = py
            /\ nx.num = 0 => px = Monitor.x
            /\ ny.num = 0 => py = Monitor.y
            /\ nx.num = nx.den => px = Monitor.x + Monitor.width
            /\ ny.num = ny.den => py = Monitor.y + Monitor.height
            /\ 2 * nx.num = nx.den =>
                  2 * (px - Monitor.x) \in {Monitor.width - 1, Monitor.width}
            /\ 2 * ny.num = ny.den =>
                  2 * (py - Monitor.y) \in {Monitor.height - 1, Monitor.height}

\* the tap (1/2, 1/2) drawn on a monitor whose origin is not (0, 0)
C6_Witness ==
    /\ Added
    /\ last.resp[1].x = Num(1, 2)
    /\ last.resp[1].y = Num(1, 2)
    /\ Monitor.x # 0
    /\ Monitor.y # 0

\* C7 (as claimed): with a grace window g > 0, a response whose timestamp is
\* earlier than start_time - g adds no dot; with g = 0 the stale filter
\* discards nothing.
C7_StaleDiscarded ==
    IsNewResponse =>
        /\ (ignore_seconds > 0 /\ BeforeGrace(last.resp[1].timestamp)) =>
              /\ ~Added
              /\ dots = last.pre_dots
        /\ ignore_seconds = 0 => last.outcome # "stale"

\* C8: when _on_session_changed is given a slideIndex other than
\* current_slide_index, then on return the dot collection is empty and
\* current_slide_index is the new slideIndex, whatever came before.
C8_SlideChangeClears ==
    (last.op = "_on_session_changed" /\ last.index # last.pre_index) =>
        /\ dots = <<>>
        /\ current_slide_index = last.index

\* a slide change that found dots on the overlay, after a capture had
\* appended a slide
C8_Witness ==
    /\ last.op = "_on_session_changed"
    /\ last.index # last.pre_index
    /\ last.pre_dots # <<>>
    /\ session_doc.slides > 0
    /\ dots = <<>>

\* C9 (as claimed): whatever calls add_dot, clear_dots or the eviction sweep
\* runs on the Qt main thread.
C9_RenderThreadOnly == last.called # {} => last.thread = "main"

\* the timestamp is missing or malformed, or x or y lies outside [0,1]
Malformed(resp) ==
    \/ resp.timestamp.kind \in {"missing", "string"}
    \/ OutOfRange(resp.x)
    \/ OutOfRange(resp.y)

WellFormed(resp) == InUnit(resp.x) /\ InUnit(resp.y) /\ HasTime(resp.timestamp)

\* x and y are numbers or missing
Mappable(resp) ==
    /\ resp.x.kind \in {"number", "missing"}
    /\ resp.y.kind \in {"number", "missing"}

\* the stale filter lets the response through
PassesFilter(resp) ==
    \/ ignore_seconds = 0
    \/ ~BeforeGrace(resp.timestamp)
    \/ resp.timestamp.num = 0

\* the response is for the current slide and there is an overlay
Current == last.index = last.pre_index /\ overlay # "None"

C11_TimerRunsAfterAdd ==
    (fade_ms > 0 /\ last.op = "add_dot") => cleanup_timer = "active"

\* the dot lies inside the overlay widget
Inside(dot) ==
    /\ 0 <= dot.x /\ dot.x <= screen.width
    /\ 0 <= dot.y /\ dot.y <= screen.height

\* C12: with a fade duration > 0, add_dot appends the dot and repaints before
\* it returns, and that paint pass draws the new dot, with an alpha above 0,
\* when its position is inside the overlay: the dot is painted while it is in
\* the collection and before any eviction sweep can run on it.
C12_PaintedOnAdd ==
    (fade_ms > 0 /\ last.op = "add_dot") =>
        /\ dots = Append(last.pre_dots, Dot(last.point[1], last.point[2], now))
        /\ Inside(dots[Len(dots)]) =>
              \E k \in 1..Len(last.drawn) :
                  /\ last.drawn[k].x = last.point[1]
                  /\ last.drawn[k].y = last.point[2]
                  /\ last.drawn[k].timestamp = now
                  /\ last.drawn[k].alpha > 0

\* add_dot of a dot inside the overlay next to an older dot that has expired
C12_Witness ==
    /\ fade_ms > 0
    /\ last.op = "add_dot"
    /\ Len(dots) = 2
    /\ Inside(dots[2])
    /\ AgeMs(dots[1]) >= fade_ms
    /\ Len(last.drawn) = 1

\* -------------------------------------------------- claims, capture triggers

\* the threads that are between the clear and the end of _on_hotkey_pressed
Capturing == {t \in Threads : hk_pc[t] # "idle"}

\* C13: every capture trigger (hotkey, HTTP /capture outside the cooldown,
\* trigger file) empties the dot collection as the first thing
\* _on_hotkey_pressed does, before the capture starts; the capture, the upload
\* and the session update that follow, failing or not, leave the collection as
\* it is.
C13_ClearBeforeCapture ==
    [][/\ last'.op = "_on_hotkey_pressed" =>
              /\ hk_pc[last'.thread] = "idle"
              /\ hk_pc'[last'.thread] = "capture"
              /\ dots' = <<>>
       /\ last'.op \in {"_update_session_document.get",
                        "_update_session_document.set",
                        "_on_hotkey_pressed.assign"} => dots' = dots]_vars

\* a trigger on the HTTP thread that found dots on the overlay
C13_Witness ==
    /\ last.op = "_on_hotkey_pressed"
    /\ last.thread = "http"
    /\ last.pre_dots # <<>>
    /\ dots = <<>>
    /\ hk_pc["http"] = "capture"

\* C14 (as claimed): once every capture has completed, the session document's
\* slideIndex is the index of the slide appended last, len(slides) - 1.
C14_SlideIndexIsLast ==
    (Capturing = {} /\ session_doc.slides > 0) =>
        session_doc.slideIndex = session_doc.slides - 1

\* ------------------------------------------------------ claims, frame of dots

\* the entries of b at the indexes S, in order
Pick(b, S) == [k \in 1..Cardinality(S) |-> b[CHOOSE i \in S : Rank(i, S) = k]]

\* a is b with some entries deleted
Remains(a, b) == \E S \in SUBSET (1..Len(b)) : a = Pick(b, S)

\* C15: no step changes the x, y or timestamp of a dot in the collection.
\* add_dot leaves the entries it found in place and appends one; every other
\* step (the eviction sweep, the paint pass, clear_dots, reads) leaves a
\* collection made of entries it found, unmodified and in their order.
C15_OnlyAppendOrDelete ==
    [][IF last'.op = "add_dot"
       THEN /\ Len(dots') = Len(dots) + 1
            /\ SubSeq(dots', 1, Len(dots)) = dots
       ELSE Remains(dots', dots)]_vars

\* a sweep that deleted the first of two dots and kept the second as it was
C15_Witness ==
    /\ last.op = "_cleanup_dots"
    /\ Len(last.pre_dots) = 2
    /\ dots = <<last.pre_dots[2]>>
    /\ dots[1].timestamp < now

\* ------------------------------------------------- claims, FirestoreWatcher

\* C16 (as claimed): once stop() has returned no snapshot listener is
\* subscribed, and no new_response signal is emitted.
C16_StopUnsubscribesAll ==
    watcher.stopped =>
        /\ watcher.session_listener # "subscribed"
        /\ watcher.responses_listener # "subscribed"
        /\ \A k \in 1..Len(last.emitted) : last.emitted[k].signal # "new_response"

\* ------------------------------------------------ claims, responses (cont.)

\* C17 (as claimed): the point _on_new_response passes to add_dot for a tap in
\* [0,1]x[0,1] is window-relative: it lies within [0,width]x[0,height] of the
\* overlay, whatever the monitor's origin, and the paint pass that add_dot
\* runs draws the dot.
C17_WindowRelative ==
    (Added /\ InUnit(last.resp[1].x) /\ InUnit(last.resp[1].y)) =>
        /\ 0 <= last.point[1] /\ last.point[1] <= screen.width
        /\ 0 <= last.point[2] /\ last.point[2] <= screen.height
        /\ \E k \in 1..Len(last.drawn) :
              /\ last.drawn[k].x = last.point[1]
              /\ last.drawn[k].y = last.point[2]
              /\ last.drawn[k].timestamp = now

\* ------------------------------------------------- claims, HTTP trigger

\* the request target, query string stripped, is exactly /capture
IsCapture(raw) ==
    /\ raw # <<>>
    /\ raw[1] = "/capture"
    /\ Len(raw) = 1 \/ raw[2] = "?"

\* the request target, query string stripped, is exactly the given path
IsPath(raw, path) ==
    /\ raw # <<>>
    /\ raw[1] = path
    /\ Len(raw) = 1 \/ raw[2] = "?"

\* C18: do_GET invokes the capture callback only for a request whose path,
\* query string stripped, is /capture; a request to /, to /ping or to an
\* unknown path invokes nothing, leaves last_http_trigger_time,
\* trigger_counter, the dots and the session as they are, and an unknown path
\* is answered with 404.
C18_OnlyCaptureTriggers ==
    [][last'.op = "do_GET" =>
          LET raw == last'.request[1]
          IN  /\ "callback" \in last'.called => IsCapture(raw)
              /\ ~IsCapture(raw) =>
                    /\ last'.called = {}
                    /\ last_http_trigger_time' = last_http_trigger_time
                    /\ trigger_counter' = trigger_counter
                    /\ dots' = dots
                    /\ session_doc' = session_doc
                    /\ current_slide_index' = current_slide_index
              /\ (~IsCapture(raw) /\ ~IsPath(raw, "/") /\ ~IsPath(raw, "/ping"))
                    => last'.status = 404
              /\ (IsPath(raw, "/") \/ IsPath(raw, "/ping")) => last'.status = 200]_vars

\* an unknown path that names /capture in its query string is answered with
\* 404 after a capture has run
C18_Witness ==
    /\ last.op = "do_GET"
    /\ last.request = << <<"?", "/capture">> >>
    /\ last.status = 404
    /\ trigger_counter > 0
    /\ session_doc.slides > 0

\* C19: handle_http_trigger invokes the callback for a /capture request if and
\* only if at least HTTP_TRIGGER_COOLDOWN_MS = 2000 ms have passed since
\* last_http_trigger_time; a request that invokes it sets
\* last_http_trigger_time to its own time and a rejected request leaves it
\* alone.  Hence last_http_trigger_time is the time of the last request that
\* invoked the callback, and two invocations are at least 2000 ms apart.
C19_Cooldown ==
    [][(last'.op = "do_GET" /\ IsCapture(last'.request[1])) =>
          LET invoked == "callback" \in last'.called
              passed == now * 1000 - last_http_trigger_time
          IN  /\ invoked <=> passed >= 2000
              /\ invoked => last_http_trigger_time' = now * 1000
              /\ ~invoked => last_http_trigger_time' = last_http_trigger_time
              /\ trigger_counter' = trigger_counter + 1]_vars

\* the third /capture request is served exactly 2000 ms after the first, a
\* rejected request having come in between
C19_Witness ==
    /\ last.op = "do_GET"
    /\ "callback" \in last.called
    /\ trigger_counter = 3
    /\ now = StartTime + 2
    /\ last_http_trigger_time = now * 1000

\* ------------------------------------------------ claims, responses (end)

\* C20: _on_new_response adds a dot only when the slide index that comes with
\* the response equals current_slide_index; a response with any other slide
\* index leaves the dot collection and current_slide_index as they were.
C20_OnlyCurrentSlide ==
    IsNewResponse =>
        /\ Added => last.index = last.pre_index
        /\ dots # last.pre_dots => last.index = last.pre_index
        /\ last.index # last.pre_index =>
              /\ ~Added
              /\ dots = last.pre_dots
              /\ current_slide_index = last.pre_index

\* a fresh, in-range response for a later slide than the current one, which
\* has a dot
C20_Witness ==
    /\ IsNewResponse
    /\ last.index > last.pre_index
    /\ last.pre_index >= 0
    /\ WellFormed(last.resp[1])
    /\ ~BeforeGrace(last.resp[1].timestamp)
    /\ dots # <<>>
    /\ dots = last.pre_dots

\* ------------------------------------------------ claims, out-of-region dots

\* the indexes of the dots a paint pass of the SimpleOverlayWindow is to draw
Visible ==
    {i \in 1..Len(dots) :
        /\ 0 <= dots[i].x /\ dots[i].x <= screen.width + 5
        /\ 0 <= dots[i].y /\ dots[i].y <= screen.height + 5
        /\ (now - dots[i].timestamp) * 1000 < fade_ms}

C22_SingleListener ==
    /\ Len(watcher.live) <= 1
    /\ watcher.responses_listener = "subscribed" =>
          /\ watcher.watched = watcher.current_slide_index
          /\ watcher.live = <<watcher.current_slide_index>>
    /\ watcher.responses_listener # "subscribed" => watcher.live = <<>>
    /\ (last.op = "_on_session_snapshot" /\ last.emitted # <<>>
          /\ last.emitted[1].index = last.pre_watcher[1].current_slide_index)
          => watcher = last.pre_watcher[1]

\* a session snapshot moved the watcher from a subscribed listener for slide 1
\* to a subscribed listener for slide 2
C22_Witness ==
    /\ last.op = "_on_session_snapshot"
    /\ last.pre_watcher[1].responses_listener = "subscribed"
    /\ last.pre_watcher[1].live = <<1>>
    /\ watcher.responses_listener = "subscribed"
    /\ watcher.current_slide_index = 2
    /\ watcher.live = <<2>>

\* ------------------------------------------------ claims, file trigger

\* the trigger file is there with a modification time above last_modified
FileIsNew == trigger_file # <<>> /\ trigger_file[1] > file_watcher.last_modified

\* C23: a pass of _watch_file invokes the callback, once, if and only if it
\* finds the trigger file with a modification time greater than
\* last_modified; it then records that time, and when the callback has
\* returned it removes the file (a removal that fails leaves the file as it
\* is).  No other pass changes anything: a file left in place with the
\* modification time already recorded triggers nothing.  last_modified never
\* decreases, and no callback starts while one is running.
C23_OncePerNewFile ==
    [][/\ last'.op = "_watch_file" =>
             /\ "callback" \in last'.called <=> FileIsNew
             /\ FileIsNew =>
                   /\ file_watcher'.last_modified = trigger_file[1]
                   /\ file_watcher.pc = "poll" /\ file_watcher'.pc = "callback"
                   /\ hk_pc["file"] = "idle" /\ hk_pc'["file"] = "capture"
             /\ ~FileIsNew =>
                   /\ file_watcher' = file_watcher
                   /\ hk_pc' = hk_pc
                   /\ session_doc' = session_doc
             /\ trigger_file' = trigger_file
       /\ last'.op = "_watch_file.remove" =>
             /\ hk_pc["file"] = "idle"
             /\ trigger_file' \in {<<>>, trigger_file}
             /\ file_watcher'.pc = "poll"
       /\ file_watcher'.last_modified >= file_watcher.last_modified]_vars

\* a pass finds the file still in place, its removal having failed after a
\* capture that appended a slide, and triggers nothing
C23_Witness ==
    /\ last.op = "_watch_file"
    /\ last.called = {}
    /\ trigger_file # <<>>
    /\ trigger_file[1] = file_watcher.last_modified
    /\ session_doc.slides = 1
    /\ file_watcher.running

\* C24 (as claimed): handle_http_trigger returns "Screenshot captured and
\* uploaded successfully!" only when the pipeline the callback ran completed,
\* that is when a slide was appended to the session document.
C24_SuccessMeansCaptured ==
    [][(last'.op = "do_GET"
          /\ last'.outcome = "Screenshot captured and uploaded successfully!")
          => session_doc'.slides = session_doc.slides + 1]_vars

\* ------------------------------------------- claims, helper/overlay.py

\* C25 (as claimed): every element of OverlayWindow.dots is a TapDot, so the
\* update tick evaluates is_expired() on each element without error and
\* leaves exactly the dots that have not expired.
C25_DotsAreTapDots ==
    overlay = "OverlayWindow" =>
        /\ \A i \in 1..Len(dots) : IsTapDot(dots[i])
        /\ last.op = "_update_dots" =>
              /\ last.outcome # "AttributeError"
              /\ dots = SelectSeq(last.pre_dots, LAMBDA dot : ~is_expired(dot, now))

\* ------------------------------------------- claims, dots and slide changes

\* C26 (as claimed): whenever current_slide_index changes, in
\* _on_session_changed or at the end of a capture, the dot collection is empty
\* once the step is done, so that every dot in the collection was added while
\* current_slide_index had its present value.
C26_DotsBelongToSlide ==
    [][current_slide_index' # current_slide_index => dots' = <<>>]_vars

\* ------------------------------------------- claims, failures of a capture

\* the thread whose step was just taken
Th == last'.thread

\* C28: when the capture, the upload or the read of the session document
\* fails, _on_hotkey_pressed returns with the session document (slides,
\* slideIndex) and current_slide_index as they were; when the write of the
\* session document fails it returns with current_slide_index as it was.  The
\* handler returns normally in both cases (the thread is idle again), the
\* session document is written only by a thread whose capture and upload
\* succeeded, and current_slide_index is assigned only by a thread whose write
\* succeeded.
C28_FailureLeavesState ==
    [][/\ (last'.op = "_update_session_document.get" /\ last'.outcome = "failed") =>
             /\ hk_pc[Th] = "capture" /\ hk_pc'[Th] = "idle"
             /\ session_doc' = session_doc
             /\ current_slide_index' = current_slide_index
       /\ (last'.op = "_update_session_document.set" /\ last'.outcome = "failed") =>
             /\ hk_pc[Th] = "set" /\ hk_pc'[Th] = "idle"
             /\ session_doc' = session_doc
             /\ current_slide_index' = current_slide_index
       /\ session_doc' # session_doc =>
             /\ last'.op = "_update_session_document.set"
             /\ last'.outcome = ""
             /\ hk_pc[Th] = "set"
       /\ current_slide_index' # current_slide_index =>
             /\ last'.op = "_on_hotkey_pressed.assign"
             /\ hk_pc[Th] = "assign"
       /\ \A t \in Threads :
             /\ (hk_pc'[t] = "set" /\ hk_pc[t] # "set") =>
                   (Th = t /\ last'.op = "_update_session_document.get"
                      /\ last'.outcome = "")
             /\ (hk_pc'[t] = "assign" /\ hk_pc[t] # "assign") =>
                   (Th = t /\ last'.op = "_update_session_document.set"
                      /\ session_doc'.slides = session_doc.slides + 1)]_vars

\* the write of the HTTP thread's capture fails after another thread's capture
\* has appended a slide and made it the current slide
C28_Witness ==
    /\ last.op = "_update_session_document.set"
    /\ last.outcome = "failed"
    /\ last.thread = "http"
    /\ hk_pc["http"] = "idle"
    /\ session_doc.slides = 1
    /\ current_slide_index = 0

\* ------------------------------------------- claims, failed subscription

\* the watcher is on slide i without a subscribed responses listener
Lost(i) ==
    /\ watcher.current_slide_index = i
    /\ watcher.responses_listener # "subscribed"

\* the watcher holds a subscribed responses listener for slide i
Held(i) ==
    /\ watcher.responses_listener = "subscribed"
    /\ watcher.watched = i

\* the session document is on slide i, so session snapshots carry slideIndex i
DocOn(i) == session_doc.slideIndex = i

\* C30 (as claimed): when the subscription for slide i has failed, then as
\* long as the session stays on slide i the watcher eventually holds a
\* subscribed responses listener for slide i.
C30_FailedSubscriptionHeals ==
    \A i \in 0..MaxCaptures :
        (Lost(i) /\ DocOn(i)) ~> (Held(i) \/ ~DocOn(i))

\* ------------------------------------------- claims, watcher and helper

\* C27 (as claimed): every new_response signal the watcher emits carries a
\* response document of the responses collection of the slide whose index it
\* carries.
C27_SignalMatchesSlide ==
    \A k \in 1..Len(signals) :
        signals[k].signal = "new_response" => signals[k].index = signals[k].slide

\* C29 (as claimed): during one run each tap-response document leads to at
\* most one add_dot call, whatever the session's slideIndex does.
C29_OneDotPerResponse == \A d \in DocIds : add_dot_calls[d] <= 1

====
